---- MODULE Spec2Model ----
(* Model of scripts/convert_to_onnx.py: the conversion procedure            *)
(* convert_cross_encoder_to_onnx, the batch driver                          *)
(* download_and_convert_popular_models, main and the __main__ block.        *)
(* A behaviour is a sequence of process runs of the script over one         *)
(* filesystem; the outcome of every call into an external library is a      *)
(* nondeterministic choice.                                                 *)
EXTENDS Integers, Sequences, FiniteSets, TLC

\* ------------------------------------------------------------------ bounds
MaxRuns == 2

\* ------------------------------------------------------- program constants
DefaultModel == "cross-encoder/ms-marco-MiniLM-L6-v2"
DefaultMaxLength == 512
DefaultOpset == 14

\* the list `models` of the batch driver
models ==
  << [model_name |-> "cross-encoder/ms-marco-MiniLM-L6-v2",
      output_name |-> "ms-marco-MiniLM-L6-v2.onnx"],
     [model_name |-> "cross-encoder/ms-marco-MiniLM-L12-v2",
      output_name |-> "ms-marco-MiniLM-L12-v2.onnx"],
     [model_name |-> "cross-encoder/ms-marco-TinyBERT-L-2-v2",
      output_name |-> "ms-marco-TinyBERT-L2-v2.onnx"] >>

Entries == 1..Len(models)

\* --------------------------------------------------------------- paths
\* A path is <<directory, file name>>; the directory "" is a path with no
\* directory component.
join(d, n) == <<d, n>>
dirname(p) == p[1]

DefaultOutput == join("models", "cross-encoder.onnx")
DefaultOutputDir == "models"

OutputDirs == {"models", "alt"}
OutputArgs == {DefaultOutput, join("", "model.onnx"),
               join("models", "ms-marco-MiniLM-L6-v2.onnx")}
\* --model and --max-length: both left at their defaults, or both given
ModelArgs == {<<DefaultModel, DefaultMaxLength>>, <<"user/custom-model", 128>>}

Paths == {join(d, models[k].output_name) : d \in OutputDirs, k \in Entries}
           \cup OutputArgs

\* --------------------------------------------------------- file contents
Absent == [kind |-> "absent", model |-> "", max_length |-> 0, opset |-> 0]
Foreign == [kind |-> "foreign", model |-> "", max_length |-> 0, opset |-> 0]
Partial == [kind |-> "partial", model |-> "", max_length |-> 0, opset |-> 0]
Artifact(m, len, ops) ==
  [kind |-> "onnx", model |-> m, max_length |-> len, opset |-> ops]

\* a check that never finds the file
exists_never(f, p) == FALSE

\* os.path.exists
exists(f, p) == f[p].kind # "absent"

\* command lines: in single-model mode every output path with either model;
\* in batch mode the single-model options are left at their defaults with
\* the default directory and all given with the other one
ArgSpace ==
  {[model |-> m[1], output |-> o, max_length |-> m[2],
    download_popular |-> FALSE, output_dir |-> DefaultOutputDir] :
      m \in ModelArgs, o \in OutputArgs}
  \cup
  {[model |-> DefaultModel, output |-> DefaultOutput,
    max_length |-> DefaultMaxLength,
    download_popular |-> TRUE, output_dir |-> DefaultOutputDir],
   [model |-> "user/custom-model", output |-> join("", "model.onnx"),
    max_length |-> 128,
    download_popular |-> TRUE, output_dir |-> "alt"]}

NoArgs == [model |-> "", output |-> join("", ""), max_length |-> 0,
           download_popular |-> FALSE, output_dir |-> ""]

NoCall == [model_name |-> "", output_path |-> join("", ""), max_length |-> 0,
           opset_version |-> 0, caller |-> "none"]

Ev(e, w) == [ev |-> e, who |-> w]

Slots == 0..Len(models)      \* 0: the call made by main; k: list entry k
NoOutcome == [k \in Slots |-> "none"]
\* calls made into the libraries by one invocation, and the exception the
\* last of them raised
NoAttempts == [load |-> 0, export |-> 0, session |-> 0, raised |-> ""]
Failed == {"failed_load", "failed_export", "failed_verify"}

VARIABLES
  env,       \* which libraries can be imported on this machine
  fs,        \* Paths -> contents
  dirs,      \* the directories that exist
  run,       \* number of process runs started
  pc,        \* position of the running process
  args,      \* the parsed command line of the run
  parsed,    \* parse_args has run
  i,         \* position in `models` of the batch loop
  outcome,   \* per slot: what happened to it in this run
  calls,     \* the invocations of convert_cross_encoder_to_onnx in this run
  cur,       \* the invocation in progress
  attempts,  \* external calls made by the invocation in progress
  log,       \* what the run printed
  exit,      \* exit status of the run, -1 while none
  fsStart,   \* fs when the run started
  writes,    \* per path: number of writes in this run
  prev       \* summary of the previous run

vars == <<env, fs, dirs, run, pc, args, parsed, i, outcome, calls, cur,
          attempts, log, exit, fsStart, writes, prev>>

\* what a later run is compared with: the directory the previous run worked
\* on as a completed batch, and how each entry ended in it
NoPrev == [output_dir |-> "", result |-> [k \in Entries |-> "kept"]]

\* ------------------------------------------------------------------ Init
Init ==
  /\ env \in [torch : BOOLEAN, transformers : BOOLEAN, onnxruntime : BOOLEAN]
  /\ dirs \in {{}, {"models"}}
  /\ fs \in [Paths -> {Absent, Foreign}]
  /\ \A p \in Paths :
       fs[p] # Absent =>
         /\ dirname(p) \in dirs
         /\ \E k \in Entries : p = join(dirname(p), models[k].output_name)
  /\ run = 0
  /\ pc = "idle"
  /\ args = NoArgs
  /\ parsed = FALSE
  /\ i = 0
  /\ outcome = NoOutcome
  /\ calls = << >>
  /\ cur = NoCall
  /\ attempts = NoAttempts
  /\ log = {}
  /\ exit = -1
  /\ fsStart = fs
  /\ writes = [p \in Paths |-> 0]
  /\ prev = NoPrev

\* ------------------------------------------------------- process start
RunMode == IF args.download_popular THEN "batch" ELSE "single"

\* the shell starts the script with a command line
StartRun ==
  /\ pc \in {"idle", "exited"}
  /\ run < MaxRuns
  /\ run' = run + 1
  /\ \E a \in ArgSpace : args' = a
  /\ prev' = IF pc = "exited" /\ parsed /\ args.download_popular /\ exit = 0
               THEN [output_dir |-> args.output_dir,
                     result |-> [k \in Entries |->
                                   CASE outcome[k] = "failed_verify" ->
                                          "failed_verify"
                                     [] outcome[k] \in Failed ->
                                          "failed_convert"
                                     [] OTHER -> "kept"]]
               ELSE NoPrev
  /\ pc' = "imports"
  /\ parsed' = FALSE
  /\ i' = 0
  /\ outcome' = NoOutcome
  /\ calls' = << >>
  /\ cur' = NoCall
  /\ attempts' = NoAttempts
  /\ log' = {}
  /\ exit' = -1
  /\ fsStart' = fs
  /\ writes' = [p \in Paths |-> 0]
  /\ UNCHANGED <<env, fs, dirs>>

\* an exception no handler catches: traceback, exit status 1
Uncaught ==
  /\ log' = log \cup {Ev("traceback", "")}
  /\ exit' = 1
  /\ pc' = "exited"

\* lines 7-12: the imports at the top of the module
ModuleImports ==
  /\ pc = "imports"
  /\ IF env.torch /\ env.transformers
       THEN pc' = "guard" /\ UNCHANGED <<log, exit>>
       ELSE Uncaught
  /\ UNCHANGED <<env, fs, dirs, run, args, parsed, i, outcome, calls, cur,
                 attempts, fsStart, writes, prev>>

\* lines 173-181: the dependency check of the __main__ block
DependencyCheck ==
  /\ pc = "guard"
  /\ IF env.transformers /\ env.torch
       THEN pc' = "main" /\ UNCHANGED <<log, exit>>
       ELSE /\ log' = log \cup {Ev("guidance", "")}
            /\ exit' = 1
            /\ pc' = "exited"
  /\ UNCHANGED <<env, fs, dirs, run, args, parsed, i, outcome, calls, cur,
                 attempts, fsStart, writes, prev>>

\* ------------------------------------------------- exception handlers
\* the verification block without its handler, and with `except Exception`
VerifyHandlerCatches_none(kind) == FALSE
VerifyHandlerCatches_all(kind) == TRUE

\* line 93: `except ImportError` around the verification block
VerifyHandlerCatches(kind) == kind = "ImportError"

\* the batch loop with `except OSError`
BatchHandlerCatches_narrow(kind) == kind = "OSError"

\* line 118: `except Exception` around the call in the batch loop
BatchHandlerCatches(kind) ==
  kind \in {"OSError", "RuntimeError", "ImportError"}

\* main with a blanket handler around the call
MainHandlerCatches_all(kind) == TRUE

\* lines 164-171: main calls the procedure outside any try block
MainHandlerCatches(kind) == FALSE

\* a loop that steps over a pair
NextEntry_skip(k) == k + 2

\* line 109: the for loop advances to the next pair of the list
NextEntry(k) == k + 1

\* an export that does not write to output_path
Exported_elsewhere(f, c) == f

\* lines 53-67: onnx_export serialises the graph to output_path
Exported(f, c) ==
  [f EXCEPT ![c.output_path] =
     Artifact(c.model_name, c.max_length, c.opset_version)]

\* os.makedirs(d, exist_ok=True) raises FileNotFoundError for the empty path
makedirs_ok(d) == d # ""

\* ------------------------------------------------------- call and return
\* enter convert_cross_encoder_to_onnx (lines 14-19; opset_version is never
\* passed, max_length only by main)
Call(m, p, len, who, slot) ==
  /\ cur' = [model_name |-> m, output_path |-> p, max_length |-> len,
             opset_version |-> DefaultOpset, caller |-> who]
  /\ calls' = Append(calls, [model_name |-> m, output_path |-> p,
                             max_length |-> len,
                             opset_version |-> DefaultOpset, caller |-> who])
  /\ attempts' = NoAttempts
  /\ pc' = "load"

Slot == IF cur.caller = "batch" THEN i ELSE 0

\* the procedure returns normally to its caller
Return(events, result) ==
  /\ log' = log \cup events
  /\ outcome' = [outcome EXCEPT ![Slot] = result]
  /\ cur' = NoCall
  /\ IF cur.caller = "batch"
       THEN pc' = "loop" /\ i' = NextEntry(i) /\ exit' = exit
       ELSE pc' = "exited" /\ i' = i /\ exit' = 0

\* an exception of class `kind` leaves the procedure
Raise(kind, result) ==
  /\ outcome' = [outcome EXCEPT ![Slot] = result]
  /\ cur' = NoCall
  /\ IF cur.caller = "batch" /\ BatchHandlerCatches(kind)
       THEN \* lines 118-119
            /\ log' = log \cup {Ev("failed", cur.model_name)}
            /\ pc' = "loop" /\ i' = NextEntry(i) /\ exit' = exit
       ELSE IF cur.caller = "main" /\ MainHandlerCatches(kind)
       THEN /\ log' = log \cup {Ev("failed", cur.model_name)}
            /\ pc' = "exited" /\ i' = i /\ exit' = 0
       ELSE Uncaught /\ i' = i

\* ------------------------------------------------------------------ main
\* lines 160-171: parse the command line and dispatch
main ==
  /\ pc = "main"
  /\ parsed' = TRUE
  /\ IF args.download_popular
       THEN /\ pc' = "batch"
            /\ UNCHANGED <<dirs, cur, calls, attempts, log, exit>>
       ELSE IF makedirs_ok(dirname(args.output))
       THEN /\ dirs' = dirs \cup {dirname(args.output)}
            /\ Call(args.model, args.output, args.max_length, "main", 0)
            /\ UNCHANGED <<log, exit>>
       ELSE /\ Uncaught
            /\ UNCHANGED <<dirs, cur, calls, attempts>>
  /\ UNCHANGED <<env, fs, run, args, i, outcome, fsStart, writes, prev>>

\* ---------------------------------------------------------- batch driver
\* lines 97-107: create the output directory, define the list
download_and_convert_popular_models ==
  /\ pc = "batch"
  /\ IF makedirs_ok(args.output_dir)
       THEN /\ dirs' = dirs \cup {args.output_dir}
            /\ i' = 1
            /\ pc' = "loop"
            /\ UNCHANGED <<log, exit>>
       ELSE Uncaught /\ UNCHANGED <<dirs, i>>
  /\ UNCHANGED <<env, fs, run, args, parsed, outcome, calls, cur, attempts,
                 fsStart, writes, prev>>

\* lines 109-117: one pass of the loop head, or the end of the loop
LoopHead ==
  /\ pc = "loop"
  /\ IF i \notin Entries
       THEN \* the driver and main return; the interpreter exits with 0
            /\ pc' = "exited"
            /\ exit' = 0
            /\ UNCHANGED <<i, outcome, log, cur, calls, attempts>>
       ELSE LET output_path == join(args.output_dir, models[i].output_name)
            IN IF exists(fs, output_path)
                 THEN /\ log' = log \cup {Ev("skip", models[i].output_name)}
                      /\ outcome' = [outcome EXCEPT ![i] = "skipped"]
                      /\ i' = NextEntry(i)
                      /\ UNCHANGED <<pc, exit, cur, calls, attempts>>
                 ELSE /\ Call(models[i].model_name, output_path,
                              DefaultMaxLength, "batch", i)
                      /\ UNCHANGED <<i, outcome, log, exit>>
  /\ UNCHANGED <<env, fs, dirs, run, args, parsed, fsStart, writes, prev>>

\* ---------------------------------------------------- conversion procedure
\* lines 29-47: load tokenizer and model, build the example input
Load ==
  /\ pc = "load"
  /\ \E ok \in BOOLEAN :
       IF ok
         THEN /\ attempts' = [attempts EXCEPT !.load = @ + 1]
              /\ pc' = "export"
              /\ UNCHANGED <<i, outcome, log, exit, cur>>
         ELSE /\ attempts' = [attempts EXCEPT !.load = @ + 1,
                                              !.raised = "OSError"]
              /\ Raise("OSError", "failed_load")
  /\ UNCHANGED <<env, fs, dirs, run, args, parsed, calls, fsStart,
                 writes, prev>>

\* lines 49-71: export the graph; a failing export may already have written
\* part of the file
Export ==
  /\ pc = "export"
  /\ \E r \in {"ok", "error", "error_partial"} :
       /\ attempts' = [attempts EXCEPT !.export = @ + 1,
                         !.raised = IF r = "ok" THEN "" ELSE "RuntimeError"]
       /\ CASE r = "ok" ->
                 /\ dirname(cur.output_path) \in dirs
                 /\ fs' = Exported(fs, cur)
                 /\ writes' = [writes EXCEPT ![cur.output_path] = @ + 1]
                 /\ pc' = "verify_import"
                 /\ UNCHANGED <<i, outcome, log, exit, cur>>
            [] r = "error" ->
                 /\ UNCHANGED <<fs, writes>>
                 /\ Raise("RuntimeError", "failed_export")
            [] r = "error_partial" ->
                 /\ dirname(cur.output_path) \in dirs
                 /\ fs' = [fs EXCEPT ![cur.output_path] = Partial]
                 /\ writes' = [writes EXCEPT ![cur.output_path] = @ + 1]
                 /\ Raise("RuntimeError", "failed_export")
  /\ UNCHANGED <<env, dirs, run, args, parsed, calls, fsStart, prev>>

\* lines 74-75 and 93-95: import onnxruntime inside the try block
VerifyImport ==
  /\ pc = "verify_import"
  /\ attempts' = [attempts EXCEPT
                    !.raised = IF env.onnxruntime THEN "" ELSE "ImportError"]
  /\ IF env.onnxruntime
       THEN pc' = "verify_run" /\ UNCHANGED <<i, outcome, log, exit, cur>>
       ELSE IF VerifyHandlerCatches("ImportError")
       THEN Return({Ev("warning", "onnxruntime")}, "unverified")
       ELSE Raise("ImportError", "failed_verify")
  /\ UNCHANGED <<env, fs, dirs, run, args, parsed, calls, fsStart,
                 writes, prev>>

\* lines 77-91 and 93-95: open an inference session on the file and run it
VerifyRun ==
  /\ pc = "verify_run"
  /\ \E r \in {"ok", "ImportError", "RuntimeError"} :
       /\ attempts' = [attempts EXCEPT !.session = @ + 1,
                         !.raised = IF r = "ok" THEN "" ELSE r]
       /\ IF r = "ok"
            THEN Return({Ev("verified", "")}, "verified")
            ELSE IF VerifyHandlerCatches(r)
            THEN Return({Ev("warning", "onnxruntime")}, "unverified")
            ELSE Raise(r, "failed_verify")
  /\ UNCHANGED <<env, fs, dirs, run, args, parsed, calls, fsStart,
                 writes, prev>>

Next ==
  \/ StartRun
  \/ ModuleImports
  \/ DependencyCheck
  \/ main
  \/ download_and_convert_popular_models
  \/ LoopHead
  \/ Load
  \/ Export
  \/ VerifyImport
  \/ VerifyRun

Spec == Init /\ [][Next]_vars

\* ============================================================ properties
\* Vocabulary of the properties, stated on the recorded facts only.
HasFile(f, p) == f[p] # Absent
EntryPath(k) == <<args.output_dir, models[k].output_name>>
Exited == pc = "exited"
BatchRun == parsed /\ args.download_popular
SingleRun == parsed /\ ~args.download_popular
Converting == pc \in {"load", "export", "verify_import", "verify_run"}
FailedEntries == {k \in Entries : outcome[k] \in Failed}
Done(k) == outcome[k] \in {"verified", "unverified"}
CallsTo(p) == Cardinality({n \in 1..Len(calls) : calls[n].output_path = p})
BatchProduct(k) ==
  [kind |-> "onnx", model |-> models[k].model_name, max_length |-> 512,
   opset |-> 14]
SecondBatchRun == BatchRun /\ prev.output_dir = args.output_dir

\* C1: in batch mode every failing conversion is caught and logged with its
\* model name, every entry is still examined, and the run ends with exit
\* status 0 and no traceback; when only the second entry fails, the files of
\* entries 1 and 3 exist afterwards, converted by this run where they were
\* missing.
C1_BatchFailureIsolation ==
  /\ BatchRun => exit # 1 /\ [ev |-> "traceback", who |-> ""] \notin log
  /\ BatchRun =>
       \A k \in Entries :
         outcome[k] \in Failed =>
           /\ [ev |-> "failed", who |-> models[k].model_name] \in log
           /\ \A j \in Entries : j < k => outcome[j] # "none"
           /\ Exited \/ pc = "loop" \/ Converting
  /\ (BatchRun /\ Exited) =>
       /\ exit = 0
       /\ \A k \in Entries : outcome[k] # "none"
       /\ FailedEntries = {2} =>
            \A k \in {1, 3} :
              /\ HasFile(fs, EntryPath(k))
              /\ ~HasFile(fsStart, EntryPath(k)) =>
                   Done(k) /\ fs[EntryPath(k)] = BatchProduct(k)

C1_Witness ==
  /\ BatchRun /\ Exited /\ exit = 0
  /\ fsStart = [p \in Paths |-> Absent]
  /\ FailedEntries = {2}
  /\ outcome[2] = "failed_load"
  /\ Done(1) /\ Done(3)
  /\ fs[EntryPath(1)] = BatchProduct(1) /\ fs[EntryPath(3)] = BatchProduct(3)

\* C3: with torch or transformers not importable the run prints the guidance
\* message, exits with status 1 and parses and converts nothing, and it is
\* the check of the __main__ block, not an uncaught exception, that ends it.
C3_StartupDependencyCheck ==
  (Exited /\ ~(env.torch /\ env.transformers)) =>
    /\ [ev |-> "guidance", who |-> ""] \in log
    /\ [ev |-> "traceback", who |-> ""] \notin log
    /\ exit = 1
    /\ ~parsed
    /\ calls = << >>
    /\ fs = fsStart

\* C4: when onnxruntime cannot be imported, a conversion whose load and export
\* succeeded leaves the exported file in place, prints the warning, opens no
\* inference session and returns normally; the batch driver does not log
\* the entry as failed.
C4_MissingVerifier ==
  ~env.onnxruntime =>
    /\ attempts.session = 0
    /\ pc # "verify_run"
    /\ \A k \in Slots :
         LET path == IF k = 0 THEN args.output ELSE EntryPath(k)
             name == IF k = 0 THEN args.model ELSE models[k].model_name
             len == IF k = 0 THEN args.max_length ELSE 512
         IN outcome[k] \notin {"none", "skipped", "failed_load",
                               "failed_export"} =>
              /\ outcome[k] = "unverified"
              /\ fs[path] = [kind |-> "onnx", model |-> name,
                             max_length |-> len, opset |-> 14]
              /\ [ev |-> "warning", who |-> "onnxruntime"] \in log
              /\ [ev |-> "failed", who |-> name] \notin log
              /\ [ev |-> "traceback", who |-> ""] \notin log
              /\ exit # 1

C4_Witness ==
  /\ ~env.onnxruntime
  /\ BatchRun /\ Exited /\ exit = 0
  /\ outcome[2] = "unverified"
  /\ fs[EntryPath(2)] = BatchProduct(2)
  /\ [ev |-> "warning", who |-> "onnxruntime"] \in log

\* C2 as stated: a batch run that follows a batch run on the same directory
\* invokes the conversion procedure zero times and leaves every file as the
\* first run left it, whatever happened in the first run.
C2_SecondRunConvertsNothing ==
  (SecondBatchRun /\ Exited) => calls = << >> /\ fs = fsStart

\* C2 as amended: a batch run that follows a batch run on the same directory
\* invokes the conversion procedure only for entries whose conversion failed
\* at load or export in the first run and left no file, never changes a file
\* that exists after the first run, and when no entry failed that way in the
\* first run it invokes nothing and leaves every file as it was.
C2_SecondRunRetriesOnlyMissing ==
  SecondBatchRun =>
    /\ \A k \in Entries :
         CallsTo(EntryPath(k)) > 0 =>
           prev.result[k] = "failed_convert" /\ ~HasFile(fsStart, EntryPath(k))
    /\ \A p \in Paths : HasFile(fsStart, p) => fs[p] = fsStart[p]
    /\ (\A k \in Entries : prev.result[k] # "failed_convert") =>
         calls = << >> /\ fs = fsStart

C2_Witness ==
  /\ SecondBatchRun /\ Exited
  /\ prev.result = [k \in Entries |-> "kept"]
  /\ \A k \in Entries : outcome[k] = "skipped" /\ fs[EntryPath(k)] = BatchProduct(k)
  /\ calls = << >>

\* C5: the batch driver invokes the conversion procedure for an entry exactly
\* when no file exists at the entry's path when the entry is reached; a file
\* that existed before the run is never written, and a finished run has made
\* as many invocations as there were entries without a file.
C5_SkipIfExists ==
  /\ [](BatchRun =>
         /\ \A k \in Entries :
              /\ outcome[k] = "skipped" =>
                   HasFile(fsStart, EntryPath(k)) /\ CallsTo(EntryPath(k)) = 0
              /\ outcome[k] \notin {"none", "skipped"} =>
                   ~HasFile(fsStart, EntryPath(k)) /\ CallsTo(EntryPath(k)) = 1
              /\ HasFile(fsStart, EntryPath(k)) =>
                   /\ CallsTo(EntryPath(k)) = 0
                   /\ writes[EntryPath(k)] = 0
                   /\ fs[EntryPath(k)] = fsStart[EntryPath(k)]
         /\ Exited =>
              Len(calls) =
                Cardinality({k \in Entries : ~HasFile(fsStart, EntryPath(k))}))
  /\ [][(pc = "loop" /\ i \in Entries) =>
          /\ HasFile(fs, EntryPath(i)) =>
               calls' = calls /\ outcome'[i] = "skipped" /\ fs' = fs
          /\ ~HasFile(fs, EntryPath(i)) =>
               /\ Len(calls') = Len(calls) + 1
               /\ calls'[Len(calls')].output_path = EntryPath(i)
               /\ calls'[Len(calls')].model_name = models[i].model_name]_vars

C5_Witness ==
  /\ BatchRun /\ Exited
  /\ HasFile(fsStart, EntryPath(1)) /\ fsStart[EntryPath(1)] = Foreign
  /\ ~HasFile(fsStart, EntryPath(2)) /\ HasFile(fsStart, EntryPath(3))
  /\ outcome[1] = "skipped" /\ outcome[3] = "skipped" /\ Done(2)
  /\ fs[EntryPath(1)] = Foreign
  /\ Len(calls) = 1

\* the path, model and length the call for slot k is made with
SlotPath(k) == IF k = 0 THEN args.output ELSE EntryPath(k)
SlotProduct(k) ==
  IF k = 0
    THEN [kind |-> "onnx", model |-> args.model,
          max_length |-> args.max_length, opset |-> 14]
    ELSE BatchProduct(k)
LastCall == calls[Len(calls)]
LastSlot ==
  IF LastCall.caller = "main" THEN 0
  ELSE CHOOSE k \in Entries : models[k].model_name = LastCall.model_name

\* C6: the conversion procedure checks nothing before it writes: an invocation
\* whose load and export succeed writes the file at its output path once,
\* replacing what was there, and writes nothing else; a run in single-model
\* mode therefore always invokes it, and rewrites the file unless load or
\* export fails.
C6_ConversionAlwaysWrites ==
  /\ \A k \in Slots :
       outcome[k] \in {"verified", "unverified", "failed_verify"} =>
         /\ writes[SlotPath(k)] = 1
         /\ fs[SlotPath(k)] = SlotProduct(k)
         /\ k = 0 => \A q \in Paths \ {SlotPath(k)} :
                       writes[q] = 0 /\ fs[q] = fsStart[q]
  /\ (SingleRun /\ Exited) =>
       /\ Len(calls) = 1
       /\ outcome[0] \notin {"failed_load", "failed_export"} =>
            writes[args.output] = 1 /\ fs[args.output] = SlotProduct(0)

\* C7: the load and the export are attempted at most once per invocation; a
\* failed load leaves the output file as it was and is followed by no
\* export; in single-model mode a failure of load or export ends the process
\* with a traceback and a non-zero status.
C7_SinglePropagation ==
  /\ attempts.load <= 1 /\ attempts.export <= 1
  /\ attempts.export = 1 => attempts.load = 1
  /\ \A k \in Slots :
       outcome[k] = "failed_load" =>
         writes[SlotPath(k)] = 0 /\ fs[SlotPath(k)] = fsStart[SlotPath(k)]
  /\ (SingleRun /\ Exited /\ calls # << >>) =>
       /\ (attempts.raised \in {"OSError", "RuntimeError"}
             /\ attempts.session = 0) =>
            /\ outcome[0] \in {"failed_load", "failed_export"}
            /\ exit = 1
            /\ [ev |-> "traceback", who |-> ""] \in log
       /\ outcome[0] = "failed_load" =>
            attempts.load = 1 /\ attempts.export = 0 /\ fs = fsStart

C7_Witness ==
  /\ SingleRun /\ Exited /\ exit = 1
  /\ outcome[0] = "failed_load"
  /\ fsStart[args.output] = Foreign /\ fs[args.output] = Foreign
  /\ attempts.load = 1 /\ attempts.export = 0

\* C8: with the batch flag main runs only the batch driver, whose calls use
\* the output directory and none of --model, --output, --max-length; without
\* it, for every --output, the parent directory of the output path exists
\* once main has dispatched and the conversion procedure has been invoked
\* exactly once, with the given model, output path and maximum length.
C8_EntryPointDispatch ==
  /\ BatchRun =>
       \A n \in 1..Len(calls) :
         /\ calls[n].caller = "batch"
         /\ calls[n].max_length = 512
         /\ \E k \in Entries :
              /\ calls[n].model_name = models[k].model_name
              /\ calls[n].output_path = EntryPath(k)
  /\ SingleRun =>
       /\ dirname(args.output) = "" \/ dirname(args.output) \in dirs
       /\ calls = << [model_name |-> args.model, output_path |-> args.output,
                      max_length |-> args.max_length, opset_version |-> 14,
                      caller |-> "main"] >>

\* C9: the batch driver handles the entries in list order, one at a time:
\* while entry i is being handled every earlier entry has been skipped,
\* converted or logged as failed and no later entry has been checked, called
\* or written; the position moves one entry at a time; every entry is
\* examined once; and whether entry i is converted is decided by the file's
\* existence at the moment the loop reaches it.
C9_SequentialOrder ==
  /\ []((BatchRun /\ pc # "batch") =>
         /\ i \in 1..(Len(models) + 1)
         /\ \A k \in Entries :
              /\ k < i => outcome[k] # "none"
              /\ k >= i => outcome[k] = "none"
              /\ k > i => /\ CallsTo(EntryPath(k)) = 0
                          /\ fs[EntryPath(k)] = fsStart[EntryPath(k)]
              /\ CallsTo(EntryPath(k)) <= 1
         /\ Converting => i \in Entries /\ LastCall.output_path = EntryPath(i)
         /\ Exited => i = Len(models) + 1)
  /\ [][(BatchRun /\ pc # "batch" /\ i' # i) =>
          /\ BatchRun' => i' = i + 1 /\ pc' = "loop" /\ outcome'[i] # "none"
          /\ ~BatchRun' => pc = "exited"]_vars
  /\ [][(BatchRun /\ pc = "loop" /\ i \in Entries) =>
          (pc' = "load" <=> ~HasFile(fs, EntryPath(i)))]_vars

C9_Witness ==
  /\ BatchRun /\ pc = "export" /\ i = 3
  /\ outcome[1] = "skipped" /\ outcome[2] = "failed_export"
  /\ fs[EntryPath(2)] = Partial
  /\ outcome[3] = "none"

\* C10: an exception other than ImportError raised by the inference session
\* is not caught in the conversion procedure: it leaves it after the exported
\* file was written, and the file stays.  In batch mode the entry is logged
\* as failed and a following batch run on the same directory skips it
\* without calling the procedure; in single-model mode the process ends with
\* a traceback and status 1 while the output file exists.
C10_VerificationFailure ==
  /\ (cur = NoCall /\ attempts.session = 1
        /\ attempts.raised \notin {"", "ImportError"}) =>
       outcome[LastSlot] = "failed_verify"
  /\ \A k \in Slots :
       outcome[k] = "failed_verify" =>
         /\ env.onnxruntime
         /\ fs[SlotPath(k)] = SlotProduct(k)
         /\ writes[SlotPath(k)] = 1
         /\ k = 0 => /\ Exited /\ exit = 1
                     /\ [ev |-> "traceback", who |-> ""] \in log
         /\ k # 0 => /\ exit # 1
                     /\ [ev |-> "failed", who |-> models[k].model_name] \in log
  /\ SecondBatchRun =>
       \A k \in Entries :
         prev.result[k] = "failed_verify" =>
           /\ HasFile(fsStart, EntryPath(k))
           /\ fs[EntryPath(k)] = fsStart[EntryPath(k)]
           /\ CallsTo(EntryPath(k)) = 0
           /\ outcome[k] \in {"none", "skipped"}
           /\ Exited => outcome[k] = "skipped"

C10_Witness ==
  /\ SecondBatchRun /\ Exited /\ exit = 0
  /\ prev.result[2] = "failed_verify"
  /\ outcome[2] = "skipped"
  /\ fs[EntryPath(2)] = BatchProduct(2)
  /\ calls = << >>
====
